---- MODULE Spec2Model ----
(***************************************************************************)
(* A model of identify/identify.py: the content sniffer (is_text), the     *)
(* shebang parser (parse_shebang, _parse_nix_shebang, _shebang_split), the *)
(* path classifier (tags_from_path, tags_from_filename,                    *)
(* tags_from_interpreter) and the license matcher (_norm_license,          *)
(* license_id).                                                            *)
(*                                                                         *)
(* Bytes and characters are their integer codes; a byte string or a str is *)
(* a sequence of codes.                                                    *)
(***************************************************************************)
EXTENDS Integers, Sequences, FiniteSets, TLC

VARIABLES
    pc,         \* position of the modelled call: "start", ..., "done"
    bytesio,    \* the content of the binary stream / of the file
    pos,        \* number of bytes of bytesio consumed so far
    ret,        \* the value returned (or the error raised) by the call
    path,       \* tags_from_path: the path argument
    fs,         \* what the filesystem holds at path: kind, X_OK, open() errno
    tags,       \* tags_from_path: the local set `tags`
    name_tags,  \* tags_from_path: the local `t`, the tags of the filename
    executable, \* tags_from_path: the local `executable`
    opens,      \* the functions that have opened the file, in order
    contents,   \* license_id: the text read from the file
    norm,       \* license_id: the local `norm`
    cutoff,     \* license_id: the local `cutoff`
    idx,        \* license_id: index in LICENSES of the entry the loop is at
    min_edit_dist,      \* license_id: the local `min_edit_dist`
    min_edit_dist_spdx, \* license_id: the local `min_edit_dist_spdx`
    calls,      \* the number of calls of ukkonen.distance so far
    skipped     \* the indices of the entries the loop left by `continue`

ioVars == <<bytesio, pos>>

pathVars == <<path, fs, tags, name_tags, executable, opens>>

licVars ==
    <<contents, norm, cutoff, idx, min_edit_dist, min_edit_dist_spdx, calls, skipped>>

vars == <<pc, ret, ioVars, pathVars, licVars>>

\* ------------------------------------------------------------------------
\* generic helpers
\* ------------------------------------------------------------------------

Min(a, b) == IF a < b THEN a ELSE b

Max(a, b) == IF a < b THEN b ELSE a

Range(s) == {s[i] : i \in 1..Len(s)}

\* s[from:] with a 1-based first index
Drop(s, n) == SubSeq(s, n + 1, Len(s))

Take(s, n) == SubSeq(s, 1, Min(n, Len(s)))

\* n copies of the code c
Repeat(c, n) == [i \in 1..n |-> c]

\* all sequences over S of length at most n
SeqsUpTo(S, n) == UNION {[1..k -> S] : k \in 0..n}

\* the value a call has not returned yet
None == [kind |-> "none"]

\* no path is being classified
NoPath ==
    /\ path = <<>>
    /\ fs = [kind |-> "none"]
    /\ tags = {}
    /\ name_tags = {}
    /\ executable = FALSE
    /\ opens = <<>>

\* no license is being identified
NoLicense ==
    /\ contents = <<>>
    /\ norm = <<>>
    /\ cutoff = 0
    /\ idx = 0
    /\ min_edit_dist = 0
    /\ min_edit_dist_spdx = ""
    /\ calls = 0
    /\ skipped = {}

\* ------------------------------------------------------------------------
\* bytesio.read(n) / bytesio.readline()
\* ------------------------------------------------------------------------

\* IO.read(n) at offset p: at most n bytes, fewer at end of stream
read(b, p, n) == SubSeq(b, p + 1, Min(p + n, Len(b)))

\* ------------------------------------------------------------------------
\* is_text
\* ------------------------------------------------------------------------

\* the size of the chunk is_text reads
ReadSize == 1024

\* bytearray([7, 8, 9, 10, 11, 12, 13, 27]) + range(0x20, 0x7F) + range(0x80, 0x100)
text_chars == {7, 8, 9, 10, 11, 12, 13, 27} \union (32..126) \union (128..255)

\* bytes.translate(None, delete): the bytes of s that are not in delete
translate_delete(s, delete) == SelectSeq(s, LAMBDA c : c \notin delete)

\* mutants of is_text: a window of one byte less; DEL taken for a text byte
is_text_short_read(b) == translate_delete(read(b, 0, ReadSize - 1), text_chars) = <<>>

is_text_del_is_text(b) ==
    translate_delete(read(b, 0, ReadSize), text_chars \union {127}) = <<>>

\* return not bool(bytesio.read(1024).translate(None, text_chars))
is_text(b) == translate_delete(read(b, 0, ReadSize), text_chars) = <<>>

\* ------------------------------------------------------------------------
\* SpecText: is_text applied to a stream
\* ------------------------------------------------------------------------

\* longest run of arbitrary bytes at the head and at the tail of a stream
MaxEdge == 1

\* bytes the streams are built from: NUL, BEL, ESC, US, 'A', DEL, 0x80, 0xFF
SniffBytes == {0, 7, 27, 31, 65, 127, 128, 255}

\* lengths of the run of 'A' between head and tail: around the read window
PadLens == {0, ReadSize - 2, ReadSize - 1, ReadSize}

TextStreams ==
    {h \o Repeat(65, n) \o t :
        h \in SeqsUpTo(SniffBytes, MaxEdge),
        n \in PadLens,
        t \in SeqsUpTo(SniffBytes, MaxEdge)}

InitText ==
    /\ pc = "start"
    /\ bytesio \in TextStreams
    /\ pos = 0
    /\ ret = None
    /\ NoPath
    /\ NoLicense

IsText ==
    /\ pc = "start"
    /\ ret' = [kind |-> "bool", value |-> is_text(bytesio)]
    /\ pos' = Len(read(bytesio, 0, ReadSize))
    /\ pc' = "done"
    /\ UNCHANGED <<bytesio, pathVars, licVars>>

NextText == IsText

SpecText == InitText /\ [][NextText]_vars

Marker == <<35, 33>>

\* '/usr/bin/env'
UsrBinEnv == <<47, 117, 115, 114, 47, 98, 105, 110, 47, 101, 110, 118>>

\* '-S'
DashS == <<45, 83>>

\* 'nix-shell'
NixShell == <<110, 105, 120, 45, 115, 104, 101, 108, 108>>

\* '-i'
DashI == <<45, 105>>

\* 'python3', '-p' and an unbalanced quote 'p (inputs only)
Python3 == <<112, 121, 116, 104, 111, 110, 51>>

DashP == <<45, 112>>

QuoteP == <<39, 112>>

\* IO.readline() at offset p: through the first b'\n', or to the end
RECURSIVE line_end(_, _)
line_end(b, i) ==
    IF i > Len(b) THEN Len(b)
    ELSE IF b[i] = 10 THEN i
    ELSE line_end(b, i + 1)

readline(b, p) == SubSeq(b, p + 1, line_end(b, p + 1))

\* ------------------------------------------------------------------------
\* bytes.decode('UTF-8'), strict
\* ------------------------------------------------------------------------

IsCont(b, i) == i <= Len(b) /\ b[i] >= 128 /\ b[i] <= 191

\* [ok, chars]: the code points of b from index i on, or ok = FALSE for
\* UnicodeDecodeError
RECURSIVE decode_from(_, _, _)
decode_from(b, i, out) ==
    IF i > Len(b) THEN [ok |-> TRUE, chars |-> out]
    ELSE LET c == b[i] IN
        IF c < 128 THEN decode_from(b, i + 1, Append(out, c))
        ELSE IF c >= 194 /\ c <= 223 /\ IsCont(b, i + 1)
            THEN decode_from(b, i + 2,
                    Append(out, (c - 192) * 64 + (b[i + 1] - 128)))
        ELSE IF /\ c >= 224 /\ c <= 239
                /\ IsCont(b, i + 1) /\ IsCont(b, i + 2)
                /\ (c = 224 => b[i + 1] >= 160)
                /\ (c = 237 => b[i + 1] <= 159)
            THEN decode_from(b, i + 3,
                    Append(out, (c - 224) * 4096 + (b[i + 1] - 128) * 64
                                + (b[i + 2] - 128)))
        ELSE IF /\ c >= 240 /\ c <= 244
                /\ IsCont(b, i + 1) /\ IsCont(b, i + 2) /\ IsCont(b, i + 3)
                /\ (c = 240 => b[i + 1] >= 144)
                /\ (c = 244 => b[i + 1] <= 143)
            THEN decode_from(b, i + 4,
                    Append(out, (c - 240) * 262144 + (b[i + 1] - 128) * 4096
                                + (b[i + 2] - 128) * 64 + (b[i + 3] - 128)))
        ELSE [ok |-> FALSE, chars |-> <<>>]

decode_utf8(b) == decode_from(b, 1, <<>>)

\* ------------------------------------------------------------------------
\* str.strip(), str.split(), shlex.split()
\* ------------------------------------------------------------------------

\* the characters str.isspace() accepts
py_whitespace ==
    (9..13) \union (28..32) \union {133, 160, 5760} \union (8192..8202)
        \union {8232, 8233, 8239, 8287, 12288}

RECURSIVE lstrip(_)
lstrip(s) ==
    IF s # <<>> /\ s[1] \in py_whitespace THEN lstrip(Tail(s)) ELSE s

RECURSIVE rstrip(_)
rstrip(s) ==
    IF s # <<>> /\ s[Len(s)] \in py_whitespace
        THEN rstrip(SubSeq(s, 1, Len(s) - 1))
        ELSE s

\* str.strip()
strip(s) == rstrip(lstrip(s))

\* str.split(): the maximal runs of non-whitespace characters
RECURSIVE str_split_from(_, _, _, _)
str_split_from(s, i, token, out) ==
    IF i > Len(s) THEN (IF token = <<>> THEN out ELSE Append(out, token))
    ELSE IF s[i] \in py_whitespace
        THEN str_split_from(s, i + 1, <<>>,
                IF token = <<>> THEN out ELSE Append(out, token))
        ELSE str_split_from(s, i + 1, Append(token, s[i]), out)

str_split(s) == str_split_from(s, 1, <<>>, <<>>)

\* shlex: whitespace ' \t\r\n', quotes '\'"', escape '\\', escapedquotes '"'
shlex_whitespace == {32, 9, 13, 10}

shlex_quotes == {39, 34}

\* shlex.shlex.read_token in posix mode with whitespace_split, run over the
\* whole input.  state is, as in shlex, the code of ' ' (32, between tokens), of
\* 'a' (97, in a word), of a quote (inside that quote) or of '\\' (92, after
\* an escape); escapedstate is
\* the state an escape returns to.  [ok, tokens]; ok = FALSE is ValueError.
RECURSIVE shlex_scan(_, _, _, _, _, _, _)
shlex_scan(s, i, state, escapedstate, token, quoted, out) ==
    IF i > Len(s) THEN
        IF state = 32 THEN [ok |-> TRUE, tokens |-> out]
        ELSE IF state = 97 THEN
            [ok |-> TRUE,
             tokens |-> IF token # <<>> \/ quoted THEN Append(out, token) ELSE out]
        ELSE [ok |-> FALSE, tokens |-> <<>>]
    ELSE LET c == s[i] IN
        IF state = 32 THEN
            IF c \in shlex_whitespace
                THEN shlex_scan(s, i + 1, 32, 32, <<>>, FALSE, out)
            ELSE IF c = 92
                THEN shlex_scan(s, i + 1, 92, 97, <<>>, FALSE, out)
            ELSE IF c \in shlex_quotes
                THEN shlex_scan(s, i + 1, c, 32, <<>>, FALSE, out)
            ELSE shlex_scan(s, i + 1, 97, 32, <<c>>, FALSE, out)
        ELSE IF state \in shlex_quotes THEN
            IF c = state
                THEN shlex_scan(s, i + 1, 97, escapedstate, token, TRUE, out)
            ELSE IF c = 92 /\ state = 34
                THEN shlex_scan(s, i + 1, 92, state, token, TRUE, out)
            ELSE shlex_scan(s, i + 1, state, escapedstate, Append(token, c), TRUE, out)
        ELSE IF state = 92 THEN
            LET kept == IF escapedstate \in shlex_quotes /\ c # 92 /\ c # escapedstate
                            THEN Append(token, 92)
                            ELSE token
            IN shlex_scan(s, i + 1, escapedstate, escapedstate, Append(kept, c),
                          quoted, out)
        ELSE \* state = 97
            IF c \in shlex_whitespace THEN
                IF token # <<>> \/ quoted
                    THEN shlex_scan(s, i + 1, 32, 32, <<>>, FALSE, Append(out, token))
                    ELSE shlex_scan(s, i + 1, 32, 32, <<>>, FALSE, out)
            ELSE IF c \in shlex_quotes
                THEN shlex_scan(s, i + 1, c, escapedstate, token, quoted, out)
            ELSE IF c = 92
                THEN shlex_scan(s, i + 1, 92, 97, token, quoted, out)
            ELSE shlex_scan(s, i + 1, 97, escapedstate, Append(token, c), quoted, out)

shlex_split(s) == shlex_scan(s, 1, 32, 32, <<>>, FALSE, <<>>)

\* try: return shlex.split(line)  except ValueError: return line.split()
_shebang_split(line) ==
    LET r == shlex_split(line) IN IF r.ok THEN r.tokens ELSE str_split(line)

\* ------------------------------------------------------------------------
\* parse_shebang, _parse_nix_shebang
\* ------------------------------------------------------------------------

\* frozenset(string.printable), with BEL, BS and ESC added (mutant)
printable_with_controls == (9..13) \union (32..126) \union {7, 8, 27}

\* frozenset(string.printable): digits, letters, punctuation, ' \t\n\r\x0b\x0c'
printable == (9..13) \union (32..126)

\* a returned command: the tuple, the source line of the return statement,
\* and the stream offset when the call returned
Return(cmd, line, p) == [kind |-> "cmd", value |-> cmd, exit |-> line, pos |-> p]

\* an uncaught exception
Raise(exc, line, p) == [kind |-> exc, value |-> <<>>, exit |-> line, pos |-> p]

\* for i, token in enumerate(line_tokens[:-1]): if token == '-i':
\*     cmd = (line_tokens[i + 1],)
nix_interpreter(line_tokens, cmd) ==
    LET hits == {i \in 1..(Len(line_tokens) - 1) : line_tokens[i] = DashI} IN
    IF hits = {} THEN cmd
    ELSE LET last == CHOOSE i \in hits : \A j \in hits : j <= i
         IN <<line_tokens[last + 1]>>

RECURSIVE _parse_nix_shebang(_, _, _)
_parse_nix_shebang(b, p, cmd) ==
    LET two == read(b, p, 2) IN
    IF two # Marker THEN Return(cmd, 177, p + Len(two))
    ELSE LET next_line_b == readline(b, p + 2)
             after == p + 2 + Len(next_line_b)
             next_line == decode_utf8(next_line_b)
         IN IF ~next_line.ok THEN Return(cmd, 165, after)
            ELSE IF \E i \in 1..Len(next_line.chars) :
                        next_line.chars[i] \notin printable
                THEN Return(cmd, 169, after)
            ELSE _parse_nix_shebang(b, after,
                    nix_interpreter(_shebang_split(strip(next_line.chars)), cmd))

\* mutant of resolve_env: '-S' is not stripped
resolve_env_keep_S(cmd) == Drop(cmd, 1)

\* if cmd[1] == '-S': cmd = cmd[2:]  else: cmd = cmd[1:]   (cmd[1] exists)
resolve_env(cmd) == IF cmd[2] = DashS THEN Drop(cmd, 2) ELSE Drop(cmd, 1)

parse_shebang(b) ==
    LET two == read(b, 0, 2) IN
    IF two # Marker THEN Return(<<>>, 183, Len(two))
    ELSE LET first_line_b == readline(b, 2)
             after == 2 + Len(first_line_b)
             first_line == decode_utf8(first_line_b)
         IN IF ~first_line.ok THEN Return(<<>>, 188, after)
            ELSE IF \E i \in 1..Len(first_line.chars) :
                        first_line.chars[i] \notin printable
                THEN Return(<<>>, 193, after)
            ELSE LET cmd == _shebang_split(strip(first_line.chars)) IN
                IF cmd # <<>> /\ cmd[1] = UsrBinEnv THEN
                    IF Len(cmd) < 2 THEN Raise("IndexError", 197, after)
                    ELSE IF resolve_env(cmd) = <<NixShell>>
                        THEN _parse_nix_shebang(b, after, resolve_env(cmd))
                    ELSE Return(resolve_env(cmd), 204, after)
                ELSE Return(cmd, 204, after)

\* ------------------------------------------------------------------------
\* SpecShebang: parse_shebang applied to a stream
\* ------------------------------------------------------------------------

\* most tokens on the first line of a stream
MaxTokens == 3

\* most '#!' lines after the first one
MaxNixLines == 2

\* the words of ws separated by single spaces
RECURSIVE Join(_)
Join(ws) ==
    IF ws = <<>> THEN <<>>
    ELSE IF Len(ws) = 1 THEN ws[1]
    ELSE ws[1] \o <<32>> \o Join(Tail(ws))

\* the concatenation of the lines ls
RECURSIVE Concat(_)
Concat(ls) == IF ls = <<>> THEN <<>> ELSE ls[1] \o Concat(Tail(ls))

\* what a first line is made of: interpreter words, an unbalanced quote,
\* BEL, NUL, ESC, a byte that is not UTF-8, U+00E9 in UTF-8, a vertical tab
ShebangWords ==
    {UsrBinEnv, DashS, NixShell, Python3, QuoteP,
     <<7>>, <<0>>, <<27>>, <<255>>, <<195, 169>>, <<11>>}

\* streams of one '#!' line, with and without its newline
FirstLineStreams ==
    {Marker \o Join(ws) \o nl :
        ws \in SeqsUpTo(ShebangWords, MaxTokens), nl \in {<<10>>, <<>>}}

\* streams that do not start with '#!': empty, '#', 'AB\n', '!#\n'
NonShebangStreams == {<<>>, <<35>>, <<65, 66, 10>>, <<33, 35, 10>>}

\* first lines that are followed by further lines
NixFirstLines ==
    {Marker \o Join(ws) \o <<10>> :
        ws \in {<<UsrBinEnv, NixShell>>, <<NixShell>>,
                <<UsrBinEnv, DashS, NixShell>>, <<UsrBinEnv, Python3>>}}

\* the lines that follow: '#!nix-shell -i python3 -p python3', '#!nix-shell
\* -p python3', '#! -i', '#!-i -i', '#!-i python3 -i', a line that is not
\* UTF-8, a line with BEL, a line without the marker
NixLines ==
    {Marker \o Join(<<NixShell, DashI, Python3, DashP, Python3>>) \o <<10>>,
     Marker \o Join(<<NixShell, DashP, Python3>>) \o <<10>>,
     Marker \o <<32>> \o DashI \o <<10>>,
     Marker \o Join(<<DashI, DashI>>) \o <<10>>,
     Marker \o Join(<<DashI, DashP, DashI>>) \o <<10>>,
     Marker \o Join(<<DashI, <<255>>>>) \o <<10>>,
     Marker \o Join(<<DashI, <<7>>>>) \o <<10>>,
     Join(<<DashI, DashS>>) \o <<10>>}

NixStreams ==
    {f \o Concat(ls) : f \in NixFirstLines, ls \in SeqsUpTo(NixLines, MaxNixLines)}

ShebangStreams == NonShebangStreams \union FirstLineStreams \union NixStreams

InitShebang ==
    /\ pc = "start"
    /\ bytesio \in ShebangStreams
    /\ pos = 0
    /\ ret = None
    /\ NoPath
    /\ NoLicense

ParseShebang ==
    /\ pc = "start"
    /\ ret' = parse_shebang(bytesio)
    /\ pos' = ret'.pos
    /\ pc' = "done"
    /\ UNCHANGED <<bytesio, pathVars, licVars>>

NextShebang == ParseShebang

SpecShebang == InitShebang /\ [][NextShebang]_vars

\* the first line of the stream (after the marker), decoded
FirstLine == decode_utf8(readline(bytesio, 2))

\* the stream starts with '#!' and its first line is valid UTF-8
HasShebangLine == read(bytesio, 0, 2) = Marker /\ FirstLine.ok

\* ... and every character of the line passes the check of source line 192
HasPrintableLine ==
    /\ HasShebangLine
    /\ \A i \in 1..Len(FirstLine.chars) : FirstLine.chars[i] \in printable

\* t0..tn: the tokens of the first line
FirstLineTokens == _shebang_split(strip(FirstLine.chars))

\* C2: parse_shebang never fails: whatever the stream, it returns a token
\* sequence and raises no error.
C2_ParseShebangNeverFails == pc = "done" => ret.kind = "cmd"

\* C3: with the first line tokenized to t0..tn: /usr/bin/env -S gives
\* t2..tn, /usr/bin/env without -S gives t1..tn, any other t0 gives t0..tn
\* (the nix-shell command aside).
C3_EnvIsStripped ==
    (pc = "done" /\ HasPrintableLine) =>
        LET t == FirstLineTokens IN
        /\ (Len(t) >= 2 /\ t[1] = UsrBinEnv /\ t[2] = DashS
                /\ SubSeq(t, 3, Len(t)) # <<NixShell>>)
            => (ret.kind = "cmd" /\ ret.value = SubSeq(t, 3, Len(t)))
        /\ (Len(t) >= 2 /\ t[1] = UsrBinEnv /\ t[2] # DashS
                /\ SubSeq(t, 2, Len(t)) # <<NixShell>>)
            => (ret.kind = "cmd" /\ ret.value = SubSeq(t, 2, Len(t)))
        /\ (Len(t) >= 1 /\ t[1] # UsrBinEnv /\ t # <<NixShell>>)
            => (ret.kind = "cmd" /\ ret.value = t)

\* '#!/usr/bin/env -S python3' has returned (python3)
C3_Witness ==
    /\ pc = "done"
    /\ HasPrintableLine
    /\ FirstLineTokens = <<UsrBinEnv, DashS, Python3>>
    /\ ret.kind = "cmd"
    /\ ret.value = <<Python3>>

\* the command left after the /usr/bin/env handling, as the claims state it
AfterEnv(t) ==
    IF t # <<>> /\ t[1] = UsrBinEnv
        THEN (IF Len(t) >= 2 /\ t[2] = DashS
                THEN SubSeq(t, 3, Len(t))
                ELSE SubSeq(t, 2, Len(t)))
        ELSE t

\* C4: whenever the command left after the /usr/bin/env handling is exactly
\* nix-shell, with or without /usr/bin/env on the first line, the result is
\* that of reading the following '#!' lines: the token after the last -i,
\* or nix-shell.
C4_NixShellWithOrWithoutEnv ==
    (pc = "done" /\ HasPrintableLine /\ AfterEnv(FirstLineTokens) = <<NixShell>>) =>
        /\ ret.kind = "cmd"
        /\ ret.value =
            _parse_nix_shebang(bytesio, 2 + Len(readline(bytesio, 2)),
                               <<NixShell>>).value

\* C6 as stated: a '#!' line that is valid UTF-8 is rejected exactly when
\* it has a character outside printable ASCII, tab, newline, vertical tab,
\* form feed, carriage return, bell, backspace and escape.
C6_RejectsOutsideClaimedSet ==
    (pc = "done" /\ HasShebangLine) =>
        ((ret.kind = "cmd" /\ ret.exit = 193 /\ ret.value = <<>>) <=>
            \E i \in 1..Len(FirstLine.chars) :
                FirstLine.chars[i] \notin
                    ((32..126) \union {9, 10, 11, 12, 13} \union {7, 8, 27}))

\* C6 amended: the line is rejected exactly when it has a character outside
\* printable ASCII 0x20-0x7E, tab, newline, vertical tab, form feed and
\* carriage return; bell, backspace and escape are rejected like NUL.
C6_RejectsOutsidePrintable ==
    (pc = "done" /\ HasShebangLine) =>
        ((ret.kind = "cmd" /\ ret.exit = 193 /\ ret.value = <<>>) <=>
            \E i \in 1..Len(FirstLine.chars) :
                FirstLine.chars[i] \notin ((32..126) \union {9, 10, 11, 12, 13}))

\* a line whose only control character is a bell has been rejected
C6_Witness ==
    /\ pc = "done"
    /\ HasShebangLine
    /\ 7 \in Range(FirstLine.chars)
    /\ \A i \in 1..Len(FirstLine.chars) :
            FirstLine.chars[i] \in (32..126) \union {7, 10}
    /\ ret.kind = "cmd" /\ ret.exit = 193 /\ ret.value = <<>>

\* ------------------------------------------------------------------------
\* tags and lookup tables
\* ------------------------------------------------------------------------

DIRECTORY == "directory"

SYMLINK == "symlink"

SOCKET == "socket"

FILE == "file"

EXECUTABLE == "executable"

NON_EXECUTABLE == "non-executable"

TEXT == "text"

BINARY == "binary"

TYPE_TAGS == {DIRECTORY, FILE, SYMLINK, SOCKET}

MODE_TAGS == {EXECUTABLE, NON_EXECUTABLE}

ENCODING_TAGS == {BINARY, TEXT}

\* extensions.NAMES: 'Makefile' and 'Dockerfile'
NAMES ==
    (<<77, 97, 107, 101, 102, 105, 108, 101>> :> {"makefile", TEXT})
    @@ (<<68, 111, 99, 107, 101, 114, 102, 105, 108, 101>> :> {"dockerfile", TEXT})

\* extensions.EXTENSIONS: 'py' and 'png'
EXTENSIONS ==
    (<<112, 121>> :> {"python", TEXT})
    @@ (<<112, 110, 103>> :> {BINARY, "image", "png"})

\* extensions.EXTENSIONS_NEED_BINARY_CHECK: 'plist'
EXTENSIONS_NEED_BINARY_CHECK == (<<112, 108, 105, 115, 116>> :> {"plist"})

\* interpreters.INTERPRETERS: 'python3' and 'sh'
INTERPRETERS ==
    (<<112, 121, 116, 104, 111, 110, 51>> :> {"python", "python3"})
    @@ (<<115, 104>> :> {"shell", "sh"})

\* ------------------------------------------------------------------------
\* tags_from_filename, tags_from_interpreter
\* ------------------------------------------------------------------------

\* str.rfind(c) + 1: the 1-based index of the last c in s, 0 if there is none
rfind(s, c) ==
    LET hits == {i \in 1..Len(s) : s[i] = c} IN
    IF hits = {} THEN 0 ELSE CHOOSE i \in hits : \A j \in hits : j <= i

\* s.rpartition(c)[2] and s.rpartition(c)[0]
rpartition_tail(s, c) == Drop(s, rfind(s, c))

rpartition_head(s, c) == SubSeq(s, 1, rfind(s, c) - 1)

\* os.path.split(path)[1], os.path.basename(path)
basename(p) == rpartition_tail(p, 47)

\* os.path.splitext(filename)[1]: from the last dot on, unless only dots
\* come before it
splitext_ext(filename) ==
    LET dot == rfind(filename, 46) IN
    IF dot > 0 /\ \E k \in 1..(dot - 1) : filename[k] # 46
        THEN SubSeq(filename, dot, Len(filename))
        ELSE <<>>

\* str.split(sep)
RECURSIVE split_on(_, _, _, _)
split_on(s, sep, part, out) ==
    IF s = <<>> THEN Append(out, part)
    ELSE IF s[1] = sep THEN split_on(Tail(s), sep, <<>>, Append(out, part))
    ELSE split_on(Tail(s), sep, Append(part, s[1]), out)

\* str.lower() on ASCII
lower(s) == [i \in 1..Len(s) |-> IF s[i] >= 65 /\ s[i] <= 90 THEN s[i] + 32 ELSE s[i]]

\* for part in [filename] + filename.split('.'): the tags of the first part
\* that is in NAMES
names_lookup(filename) ==
    LET parts == <<filename>> \o split_on(filename, 46, <<>>, <<>>)
        hits == {i \in 1..Len(parts) : parts[i] \in DOMAIN NAMES}
    IN IF hits = {} THEN {}
       ELSE NAMES[parts[CHOOSE i \in hits : \A j \in hits : i <= j]]

\* if len(ext) > 0: ... EXTENSIONS, elif EXTENSIONS_NEED_BINARY_CHECK
ext_lookup(filename) ==
    LET raw == splitext_ext(filename) IN
    IF Len(raw) > 0 THEN
        LET ext == lower(Tail(raw)) IN
        IF ext \in DOMAIN EXTENSIONS THEN EXTENSIONS[ext]
        ELSE IF ext \in DOMAIN EXTENSIONS_NEED_BINARY_CHECK
            THEN EXTENSIONS_NEED_BINARY_CHECK[ext]
        ELSE {}
    ELSE {}

tags_from_filename(p) ==
    LET filename == basename(p) IN names_lookup(filename) \union ext_lookup(filename)

\* while interpreter: look it up, else drop the last '.suffix'
RECURSIVE interpreter_lookup(_)
interpreter_lookup(interpreter) ==
    IF interpreter = <<>> THEN {}
    ELSE IF interpreter \in DOMAIN INTERPRETERS THEN INTERPRETERS[interpreter]
    ELSE interpreter_lookup(rpartition_head(interpreter, 46))

tags_from_interpreter(interpreter) ==
    interpreter_lookup(rpartition_tail(interpreter, 47))

\* ------------------------------------------------------------------------
\* file_is_text, parse_shebang_from_file
\* ------------------------------------------------------------------------

\* os.path.lexists(path)
lexists(f) == f.kind # "missing"

\* [kind, value, opened]: the result, and whether open(path, 'rb') was called
file_is_text(f, b) ==
    IF ~lexists(f) THEN [kind |-> "ValueError", value |-> FALSE, opened |-> FALSE]
    ELSE IF f.open_errno # "none"
        THEN [kind |-> "OSError", value |-> FALSE, opened |-> TRUE]
    ELSE [kind |-> "bool", value |-> is_text(b), opened |-> TRUE]

parse_shebang_from_file(f, b) ==
    IF ~lexists(f) THEN [kind |-> "ValueError", value |-> <<>>, opened |-> FALSE]
    ELSE IF ~f.x_ok THEN [kind |-> "cmd", value |-> <<>>, opened |-> FALSE]
    ELSE IF f.open_errno = "EINVAL"
        THEN [kind |-> "cmd", value |-> <<>>, opened |-> TRUE]
    ELSE IF f.open_errno # "none"
        THEN [kind |-> "OSError", value |-> <<>>, opened |-> TRUE]
    ELSE [kind |-> parse_shebang(b).kind, value |-> parse_shebang(b).value,
          opened |-> TRUE]

\* ------------------------------------------------------------------------
\* tags_from_path, one action per step
\* ------------------------------------------------------------------------

\* the call has ended: it returned a tag set, or raised
Finish(kind, value) ==
    /\ pc' = "done"
    /\ ret' = [kind |-> kind, value |-> value]

\* sr = os.lstat(path) and the three early returns
Lstat ==
    /\ pc = "start"
    /\ IF fs.kind = "missing" THEN Finish("ValueError", {}) /\ UNCHANGED tags
       ELSE IF fs.kind = "dir" THEN Finish("tags", {DIRECTORY}) /\ UNCHANGED tags
       ELSE IF fs.kind = "link" THEN Finish("tags", {SYMLINK}) /\ UNCHANGED tags
       ELSE IF fs.kind = "sock" THEN Finish("tags", {SOCKET}) /\ UNCHANGED tags
       ELSE /\ tags' = {FILE}
            /\ pc' = "access"
            /\ UNCHANGED ret
    /\ UNCHANGED <<ioVars, path, fs, name_tags, executable, opens, licVars>>

\* executable = os.access(path, os.X_OK)
Access ==
    /\ pc = "access"
    /\ executable' = fs.x_ok
    /\ tags' = tags \union {IF fs.x_ok THEN EXECUTABLE ELSE NON_EXECUTABLE}
    /\ pc' = "filename"
    /\ UNCHANGED <<ioVars, ret, path, fs, name_tags, opens, licVars>>

\* mutant of FromFilename: the shebang is parsed whenever the file is
\* executable, whatever the filename gave
FromFilename_always_shebang ==
    /\ pc = "filename"
    /\ name_tags' = tags_from_filename(basename(path))
    /\ tags' = tags \union name_tags'
    /\ pc' = IF executable THEN "shebang" ELSE "encoding"
    /\ UNCHANGED <<ioVars, ret, path, fs, executable, opens, licVars>>

\* t = tags_from_filename(os.path.basename(path)); if len(t) > 0: ...
FromFilename ==
    /\ pc = "filename"
    /\ name_tags' = tags_from_filename(basename(path))
    /\ tags' = tags \union name_tags'
    /\ pc' = IF Cardinality(name_tags') > 0 THEN "encoding"
             ELSE IF executable THEN "shebang"
             ELSE "encoding"
    /\ UNCHANGED <<ioVars, ret, path, fs, executable, opens, licVars>>

\* shebang = parse_shebang_from_file(path); if len(shebang) > 0: ...
Shebang ==
    /\ pc = "shebang"
    /\ LET shebang == parse_shebang_from_file(fs, bytesio) IN
        /\ opens' = IF shebang.opened
                        THEN Append(opens, "parse_shebang_from_file")
                        ELSE opens
        /\ IF shebang.kind # "cmd"
            THEN Finish(shebang.kind, {}) /\ UNCHANGED tags
            ELSE /\ tags' = IF Len(shebang.value) > 0
                                THEN tags \union tags_from_interpreter(shebang.value[1])
                                ELSE tags
                 /\ pc' = "encoding"
                 /\ UNCHANGED ret
    /\ UNCHANGED <<ioVars, path, fs, name_tags, executable, licVars>>

\* mutant of Sniff: the content is sniffed whatever tags are there
Sniff_always ==
    /\ pc = "encoding"
    /\ LET r == file_is_text(fs, bytesio) IN
        /\ opens' = IF r.opened THEN Append(opens, "file_is_text") ELSE opens
        /\ IF r.kind # "bool"
            THEN Finish(r.kind, {}) /\ UNCHANGED tags
            ELSE /\ tags' = tags \union {IF r.value THEN TEXT ELSE BINARY}
                 /\ pc' = "return"
                 /\ UNCHANGED ret
    /\ UNCHANGED <<ioVars, path, fs, name_tags, executable, licVars>>

\* if not ENCODING_TAGS & tags: tags.add(TEXT if file_is_text(path) else BINARY)
Sniff ==
    /\ pc = "encoding"
    /\ ENCODING_TAGS \intersect tags = {}
    /\ LET r == file_is_text(fs, bytesio) IN
        /\ opens' = IF r.opened THEN Append(opens, "file_is_text") ELSE opens
        /\ IF r.kind # "bool"
            THEN Finish(r.kind, {}) /\ UNCHANGED tags
            ELSE /\ tags' = tags \union {IF r.value THEN TEXT ELSE BINARY}
                 /\ pc' = "return"
                 /\ UNCHANGED ret
    /\ UNCHANGED <<ioVars, path, fs, name_tags, executable, licVars>>

\* the encoding is known already: nothing to read
NoSniff ==
    /\ pc = "encoding"
    /\ ENCODING_TAGS \intersect tags # {}
    /\ pc' = "return"
    /\ UNCHANGED <<ioVars, ret, pathVars, licVars>>

\* assert ENCODING_TAGS & tags; assert MODE_TAGS & tags; return tags
ReturnTags ==
    /\ pc = "return"
    /\ IF ENCODING_TAGS \intersect tags # {} /\ MODE_TAGS \intersect tags # {}
        THEN Finish("tags", tags)
        ELSE Finish("AssertionError", {})
    /\ UNCHANGED <<ioVars, pathVars, licVars>>

\* ------------------------------------------------------------------------
\* SpecPath: tags_from_path applied to a path
\* ------------------------------------------------------------------------

\* 'Makefile', 'd/Makefile', 'Dockerfile.xenial', 'Dockerfile.png', 'run.PY',
\* 'a.plist', 'a.png', 'x', '.py', 'd.py/x'
PathNames ==
    {<<77, 97, 107, 101, 102, 105, 108, 101>>,
     <<100, 47, 77, 97, 107, 101, 102, 105, 108, 101>>,
     <<68, 111, 99, 107, 101, 114, 102, 105, 108, 101, 46, 120, 101, 110, 105, 97, 108>>,
     <<68, 111, 99, 107, 101, 114, 102, 105, 108, 101, 46, 112, 110, 103>>,
     <<114, 117, 110, 46, 80, 89>>,
     <<97, 46, 112, 108, 105, 115, 116>>,
     <<97, 46, 112, 110, 103>>,
     <<120>>,
     <<46, 112, 121>>,
     <<100, 46, 112, 121, 47, 120>>}

\* file contents: empty, 'AB\n', NUL, '#!/usr/bin/env python3\n',
\* '#!/bin/sh\n', '#!/usr/bin/python3.9.1 -u\n', '#!/usr/bin/env\n',
\* '#!/usr/bin/env nix-shell\n#!nix-shell -i python3 -p python3\n', '#!ruby\n'
PathContents ==
    {<<>>,
     <<65, 66, 10>>,
     <<0>>,
     Marker \o Join(<<UsrBinEnv, Python3>>) \o <<10>>,
     Marker \o <<47, 98, 105, 110, 47, 115, 104, 10>>,
     Marker \o <<47, 117, 115, 114, 47, 98, 105, 110, 47>> \o Python3
        \o <<46, 57, 46, 49, 32, 45, 117, 10>>,
     Marker \o UsrBinEnv \o <<10>>,
     Marker \o Join(<<UsrBinEnv, NixShell>>) \o <<10>>
        \o Marker \o Join(<<NixShell, DashI, Python3, DashP, Python3>>) \o <<10>>,
     Marker \o <<114, 117, 98, 121, 10>>}

\* what lstat, access and open can answer
FsEntries ==
    [kind : {"missing", "dir", "link", "sock", "reg"},
     x_ok : BOOLEAN,
     open_errno : {"none", "EINVAL", "EACCES"}]

InitPath ==
    /\ pc = "start"
    /\ bytesio \in PathContents
    /\ pos = 0
    /\ ret = None
    /\ path \in PathNames
    /\ fs \in FsEntries
    /\ tags = {}
    /\ name_tags = {}
    /\ executable = FALSE
    /\ opens = <<>>
    /\ NoLicense

NextPath ==
    \/ Lstat
    \/ Access
    \/ FromFilename
    \/ Shebang
    \/ Sniff
    \/ NoSniff
    \/ ReturnTags

SpecPath == InitPath /\ [][NextPath]_vars

\* C1: a successful tags_from_path returns, with `file`, exactly one mode
\* tag and exactly one encoding tag, and with directory, symlink or socket
\* that single tag alone; also when name and extension matches are unioned.
C1_ExactlyOneModeAndEncoding ==
    (pc = "done" /\ ret.kind = "tags") =>
        /\ FILE \in ret.value =>
            /\ Cardinality(ret.value \intersect {EXECUTABLE, NON_EXECUTABLE}) = 1
            /\ Cardinality(ret.value \intersect {TEXT, BINARY}) = 1
        /\ ret.value \intersect {DIRECTORY, SYMLINK, SOCKET} # {} =>
            /\ Cardinality(ret.value) = 1
            /\ ret.value \intersect {EXECUTABLE, NON_EXECUTABLE, TEXT, BINARY} = {}

\* C5: the file is opened for shebang parsing only if the filename lookup
\* gave no tags and the file is executable; it is opened for sniffing only
\* if the tags hold no encoding tag after the lookup and shebang steps; so a
\* call whose filename lookup gave an encoding tag returns without any open.
C5_OpensOnlyWhenNeeded ==
    [][/\ (opens' # opens /\ opens'[Len(opens')] = "parse_shebang_from_file")
            => (name_tags = {} /\ executable /\ pc = "shebang")
       /\ (opens' # opens /\ opens'[Len(opens')] = "file_is_text")
            => (tags \intersect {TEXT, BINARY} = {} /\ pc = "encoding")
       /\ (pc' = "done" /\ ret'.kind = "tags"
                /\ name_tags' \intersect {TEXT, BINARY} # {})
            => opens' = <<>>]_vars

\* an executable file named Makefile has been classified without any open
C5_Witness ==
    /\ pc = "done"
    /\ ret.kind = "tags"
    /\ path = <<77, 97, 107, 101, 102, 105, 108, 101>>
    /\ executable
    /\ name_tags = {"makefile", TEXT}
    /\ ret.value = {FILE, EXECUTABLE, "makefile", TEXT}
    /\ opens = <<>>

\* ------------------------------------------------------------------------
\* _norm_license
\* ------------------------------------------------------------------------

\* 'copyright' and '(c)', in lower case
CopyrightWord == <<99, 111, 112, 121, 114, 105, 103, 104, 116>>

CWord == <<40, 99, 41>>

\* re.I: the character c matches the pattern letter l (lower case); 'i'
\* also matches U+0130 and U+0131
ci_match(c, l) ==
    \/ c = l
    \/ (l >= 97 /\ l <= 122 /\ c = l - 32)
    \/ (l = 105 /\ c \in {304, 305})

\* the word w matches s at index j, case-insensitively
word_at(s, j, w) ==
    /\ j + Len(w) - 1 <= Len(s)
    /\ \A k \in 1..Len(w) : ci_match(s[j + k - 1], w[k])

\* \s*: the index after the run of whitespace that starts at j
RECURSIVE skip_ws(_, _)
skip_ws(s, j) ==
    IF j <= Len(s) /\ s[j] \in py_whitespace THEN skip_ws(s, j + 1) ELSE j

\* .*$: the index of the last character of the line that holds index j
\* (j - 1 when the line ends right before j)
RECURSIVE end_of_line(_, _)
end_of_line(s, j) ==
    IF j > Len(s) \/ s[j] = 10 THEN j - 1 ELSE end_of_line(s, j + 1)

\* ^\s*(Copyright|\(C\)) .*$ matched at index i: the index of the last
\* character of the match, 0 when there is no match at i
copyright_match(s, i) ==
    IF ~(i = 1 \/ s[i - 1] = 10) THEN 0
    ELSE LET j == skip_ws(s, i)
             k == IF word_at(s, j, CopyrightWord) THEN j + Len(CopyrightWord)
                  ELSE IF word_at(s, j, CWord) THEN j + Len(CWord)
                  ELSE 0
         IN IF k > 0 /\ k <= Len(s) /\ s[k] = 32
                THEN end_of_line(s, k + 1)
                ELSE 0

\* COPYRIGHT_RE.sub('', s), from index i on
RECURSIVE copyright_sub(_, _)
copyright_sub(s, i) ==
    IF i > Len(s) THEN <<>>
    ELSE LET e == copyright_match(s, i) IN
        IF e > 0 THEN copyright_sub(s, e + 1)
        ELSE <<s[i]>> \o copyright_sub(s, i + 1)

\* WS_RE.sub(' ', s), from index i on: each run of whitespace becomes one
\* space
RECURSIVE ws_sub(_, _)
ws_sub(s, i) ==
    IF i > Len(s) THEN <<>>
    ELSE IF s[i] \in py_whitespace
        THEN <<32>> \o ws_sub(s, skip_ws(s, i))
        ELSE <<s[i]>> \o ws_sub(s, i + 1)

\* mutant of _norm_license: copyright lines are kept
_norm_license_keeps_copyright(s) == strip(ws_sub(s, 1))

_norm_license(s) == strip(ws_sub(copyright_sub(s, 1), 1))

\* ------------------------------------------------------------------------
\* ukkonen.distance
\* ------------------------------------------------------------------------

\* the number of leading characters a and b share
common_prefix(a, b) ==
    LET n == Min(Len(a), Len(b))
        D == {i \in 1..n : a[i] # b[i]}
    IN IF D = {} THEN n ELSE (CHOOSE i \in D : \A j \in D : i <= j) - 1

\* the number of trailing characters a and b share after their first p
common_suffix(a, b, p) ==
    LET n == Min(Len(a), Len(b)) - p
        D == {i \in 1..n : a[Len(a) + 1 - i] # b[Len(b) + 1 - i]}
    IN IF D = {} THEN n ELSE (CHOOSE i \in D : \A j \in D : i <= j) - 1

\* one row of the edit-distance table, filled from the left: row[j + 1] is
\* the distance between a[1..i] (which ends with c) and b[1..j]; prev is
\* the row of a[1..i-1]
RECURSIVE lev_row(_, _, _, _)
lev_row(prev, c, b, row) ==
    IF Len(row) = Len(b) + 1 THEN row
    ELSE LET j == Len(row)
             subst == prev[j] + (IF c = b[j] THEN 0 ELSE 1)
             v == Min(Min(prev[j + 1] + 1, row[j] + 1), subst)
         IN lev_row(prev, c, b, Append(row, v))

\* the last row of the table, given the row prev of a[1..i-1]; the length
\* of prev is looked at first, so that a row is complete before the next
\* one is started
RECURSIVE lev_rows(_, _, _, _)
lev_rows(a, b, i, prev) ==
    IF Len(prev) = Len(b) + 1 /\ i <= Len(a)
        THEN lev_rows(a, b, i + 1, lev_row(prev, a[i], b, <<prev[1] + 1>>))
        ELSE prev

\* the Levenshtein distance (insertion, deletion, substitution, unit cost):
\* a shared prefix and a shared suffix do not change it and are left out
levenshtein(a, b) ==
    LET p == common_prefix(a, b)
        s == common_suffix(a, b, p)
        x == SubSeq(a, p + 1, Len(a) - s)
        y == SubSeq(b, p + 1, Len(b) - s)
    IN lev_rows(x, y, 1, [j \in 1..(Len(y) + 1) |-> j - 1])[Len(y) + 1]

\* ukkonen.distance(a, b, k): the distance when it is at most k, else k.
\* license_id only compares the result with cutoff = k by `<`, so any result
\* not below k for a distance above k gives the same behaviour.
ukkonen_distance(a, b, k) == Min(levenshtein(a, b), k)

\* ------------------------------------------------------------------------
\* license_id
\* ------------------------------------------------------------------------

\* sys.maxsize (of a 32-bit build)
maxsize == 2147483647

\* licenses.LICENSES: five (spdx, text) pairs.  The texts are
\*   '(c) 2020 X\nPermission is granted to\nuse it for free.\n'
\*   'Pexmission is granted to use it for free.\n'
\*   'Copyright Y\n\nPexmisxsion is granted to use it for free.'
\*   'Public domain, no fee'
\*   'Copyright Z\nPexmission is granted to use it for free.'
\* The second and the fifth have the same normalized text.
LICENSES ==
    <<[spdx |-> "MIT", text |->
        <<40, 99, 41, 32, 50, 48, 50, 48, 32, 88, 10, 80, 101, 114, 109, 105,
          115, 115, 105, 111, 110, 32, 105, 115, 32, 103, 114, 97, 110, 116,
          101, 100, 32, 116, 111, 10, 117, 115, 101, 32, 105, 116, 32, 102,
          111, 114, 32, 102, 114, 101, 101, 46, 10>>],
      [spdx |-> "ISC", text |->
        <<80, 101, 120, 109, 105, 115, 115, 105, 111, 110, 32, 105, 115, 32,
          103, 114, 97, 110, 116, 101, 100, 32, 116, 111, 32, 117, 115, 101,
          32, 105, 116, 32, 102, 111, 114, 32, 102, 114, 101, 101, 46, 10>>],
      [spdx |-> "0BSD", text |->
        <<67, 111, 112, 121, 114, 105, 103, 104, 116, 32, 89, 10, 10, 80, 101,
          120, 109, 105, 115, 120, 115, 105, 111, 110, 32, 105, 115, 32, 103,
          114, 97, 110, 116, 101, 100, 32, 116, 111, 32, 117, 115, 101, 32,
          105, 116, 32, 102, 111, 114, 32, 102, 114, 101, 101, 46>>],
      [spdx |-> "Unlicense", text |->
        <<80, 117, 98, 108, 105, 99, 32, 100, 111, 109, 97, 105, 110, 44, 32,
          110, 111, 32, 102, 101, 101>>],
      [spdx |-> "X11", text |->
        <<67, 111, 112, 121, 114, 105, 103, 104, 116, 32, 90, 10, 80, 101,
          120, 109, 105, 115, 115, 105, 111, 110, 32, 105, 115, 32, 103, 114,
          97, 110, 116, 101, 100, 32, 116, 111, 32, 117, 115, 101, 32, 105,
          116, 32, 102, 111, 114, 32, 102, 114, 101, 101, 46>>]>>

\* math.ceil(.05 * n)
ceil_5_percent(n) == (n + 19) \div 20

abs(x) == IF x < 0 THEN -x ELSE x

\* mutant of length_differs: any difference of length prunes
length_differs_at_all(n, m) == n # m

\* abs(len(norm) - len(norm_license)) / len(norm) > .05, n = len(norm) > 0
length_differs(n, m) == 20 * abs(n - m) > n

\* norm = _norm_license(contents); min_edit_dist = sys.maxsize;
\* min_edit_dist_spdx = ''; cutoff = math.ceil(.05 * len(norm))
Normalize ==
    /\ pc = "start"
    /\ norm' = _norm_license(contents)
    /\ min_edit_dist' = maxsize
    /\ min_edit_dist_spdx' = ""
    /\ cutoff' = ceil_5_percent(Len(norm'))
    /\ idx' = 1
    /\ pc' = "loop"
    /\ UNCHANGED <<ret, ioVars, pathVars, contents, calls, skipped>>

\* if norm == norm_license: return spdx
ExactMatch ==
    /\ pc = "loop"
    /\ idx <= Len(LICENSES)
    /\ norm = _norm_license(LICENSES[idx].text)
    /\ Finish("spdx", LICENSES[idx].spdx)
    /\ UNCHANGED <<ioVars, pathVars, licVars>>

\* if norm and abs(len(norm) - len(norm_license)) / len(norm) > .05: continue
Prune ==
    /\ pc = "loop"
    /\ idx <= Len(LICENSES)
    /\ LET norm_license == _norm_license(LICENSES[idx].text) IN
        /\ norm # norm_license
        /\ norm # <<>> /\ length_differs(Len(norm), Len(norm_license))
    /\ skipped' = skipped \union {idx}
    /\ idx' = idx + 1
    /\ UNCHANGED <<pc, ret, ioVars, pathVars, contents, norm, cutoff,
                   min_edit_dist, min_edit_dist_spdx, calls>>

\* mutant of Distance: the last entry below the cutoff wins, not the nearest
Distance_last_below_cutoff ==
    /\ pc = "loop"
    /\ idx <= Len(LICENSES)
    /\ LET norm_license == _norm_license(LICENSES[idx].text)
           edit_dist == ukkonen_distance(norm, norm_license, cutoff)
       IN /\ norm # norm_license
          /\ ~(norm # <<>> /\ length_differs(Len(norm), Len(norm_license)))
          /\ IF edit_dist < cutoff
                THEN /\ min_edit_dist' = edit_dist
                     /\ min_edit_dist_spdx' = LICENSES[idx].spdx
                ELSE UNCHANGED <<min_edit_dist, min_edit_dist_spdx>>
    /\ calls' = calls + 1
    /\ idx' = idx + 1
    /\ UNCHANGED <<pc, ret, ioVars, pathVars, contents, norm, cutoff, skipped>>

\* edit_dist = ukkonen.distance(norm, norm_license, cutoff)
\* if edit_dist < cutoff and edit_dist < min_edit_dist: ...
Distance ==
    /\ pc = "loop"
    /\ idx <= Len(LICENSES)
    /\ LET norm_license == _norm_license(LICENSES[idx].text)
           edit_dist == ukkonen_distance(norm, norm_license, cutoff)
       IN /\ norm # norm_license
          /\ ~(norm # <<>> /\ length_differs(Len(norm), Len(norm_license)))
          /\ IF edit_dist < cutoff /\ edit_dist < min_edit_dist
                THEN /\ min_edit_dist' = edit_dist
                     /\ min_edit_dist_spdx' = LICENSES[idx].spdx
                ELSE UNCHANGED <<min_edit_dist, min_edit_dist_spdx>>
    /\ calls' = calls + 1
    /\ idx' = idx + 1
    /\ UNCHANGED <<pc, ret, ioVars, pathVars, contents, norm, cutoff, skipped>>

\* if norm and min_edit_dist < cutoff: return min_edit_dist_spdx
\* else: return None
EndOfLicenses ==
    /\ pc = "loop"
    /\ idx > Len(LICENSES)
    /\ IF norm # <<>> /\ min_edit_dist < cutoff
        THEN Finish("spdx", min_edit_dist_spdx)
        ELSE Finish("None", "")
    /\ UNCHANGED <<ioVars, pathVars, licVars>>

\* ------------------------------------------------------------------------
\* SpecLicense: license_id applied to a text
\* ------------------------------------------------------------------------

\* most single-character edits between a base text and the candidate
MaxEdits == 2

\* where a text is edited: in the first word of a text without a copyright
\* line, and in the first word after the copyright line of LICENSES[1]
EditPositions == {3, 14}

\* the edits: substitute 'x' or 'z', delete, insert 'x'
EditOps ==
    [op : {"sub"}, p : EditPositions, c : {120, 122}]
        \union [op : {"del"}, p : EditPositions, c : {0}]
        \union [op : {"ins"}, p : EditPositions, c : {120}]

Applicable(s, e) == e.p <= Len(s)

ApplyEdit(s, e) ==
    IF e.op = "sub" THEN [s EXCEPT ![e.p] = e.c]
    ELSE IF e.op = "del" THEN SubSeq(s, 1, e.p - 1) \o SubSeq(s, e.p + 1, Len(s))
    ELSE SubSeq(s, 1, e.p - 1) \o <<e.c>> \o SubSeq(s, e.p, Len(s))

\* the texts at most k edits away from a text of S
RECURSIVE Edited(_, _)
Edited(S, k) ==
    IF k = 0 THEN S
    ELSE LET E == Edited(S, k - 1) IN
        E \union {ApplyEdit(s, e) : <<s, e>> \in {x \in E \X EditOps : Applicable(x[1], x[2])}}

\* 'Copyright 2020 Jane Doe\n'
CopyrightLine ==
    <<67, 111, 112, 121, 114, 105, 103, 104, 116, 32, 50, 48, 50, 48, 32, 74,
      97, 110, 101, 32, 68, 111, 101, 10>>

\* the catalog texts, 'Permission' (less than half of any of them), ''
BaseTexts ==
    {LICENSES[i].text : i \in 1..Len(LICENSES)}
        \union {<<80, 101, 114, 109, 105, 115, 115, 105, 111, 110>>, <<>>}

LicenseTexts ==
    LET E == Edited(BaseTexts, MaxEdits) IN E \union {CopyrightLine \o s : s \in E}

InitLicense ==
    /\ pc = "start"
    /\ ret = None
    /\ bytesio = <<>>
    /\ pos = 0
    /\ NoPath
    /\ contents \in LicenseTexts
    /\ norm = <<>>
    /\ cutoff = 0
    /\ idx = 0
    /\ min_edit_dist = 0
    /\ min_edit_dist_spdx = ""
    /\ calls = 0
    /\ skipped = {}

NextLicense ==
    \/ Normalize
    \/ ExactMatch
    \/ Prune
    \/ Distance
    \/ EndOfLicenses

SpecLicense == InitLicense /\ [][NextLicense]_vars

\* ------------------------------------------------------------------------
\* license_id: properties
\* ------------------------------------------------------------------------

\* the normalized catalog texts, in catalog order
norm_licenses == [i \in 1..Len(LICENSES) |-> _norm_license(LICENSES[i].text)]

\* the entries whose normalized text is n
exact_matches(n) == {i \in 1..Len(LICENSES) : norm_licenses[i] = n}

SetMin(S) == CHOOSE x \in S : \A y \in S : x <= y

spdx_of(i) == [kind |-> "spdx", value |-> LICENSES[i].spdx]

no_match == [kind |-> "None", value |-> ""]

\* C7: when the normalized candidate equals the normalized text of some
\* catalog entry, license_id returns the identifier of the first such entry
\* in catalog order, whatever distances were computed before; and a catalog
\* text with the line 'Copyright 2020 Jane Doe' put before it is identified
\* as the first entry with that catalog text's normalized text.
C7_FirstExactMatchWins ==
    pc = "done" =>
        LET n == _norm_license(contents) IN
            /\ exact_matches(n) # {} => ret = spdx_of(SetMin(exact_matches(n)))
            /\ \A i \in 1..Len(LICENSES) :
                contents = CopyrightLine \o LICENSES[i].text =>
                    ret = spdx_of(SetMin(exact_matches(norm_licenses[i])))

\* a catalog text with a copyright line added is returned as the second
\* entry (never the fifth, which has the same normalized text), after the
\* first entry was found within the cutoff
C7_Witness ==
    /\ pc = "done"
    /\ contents = CopyrightLine \o LICENSES[2].text
    /\ ret = spdx_of(2)
    /\ min_edit_dist_spdx = LICENSES[1].spdx
    /\ min_edit_dist < cutoff
    /\ calls = 1

\* the least k with 20 * k >= n, which is ceil(0.05 * n)
five_percent_up(n) == CHOOSE k \in 0..n : 20 * k >= n /\ 20 * (k - 1) < n

\* the Levenshtein distance of n to each catalog entry
distances(n) == [i \in 1..Len(LICENSES) |-> levenshtein(n, norm_licenses[i])]

\* the first entry nearest to n
nearest(n) ==
    LET d == distances(n)
        m == SetMin({d[i] : i \in 1..Len(LICENSES)})
    IN SetMin({i \in 1..Len(LICENSES) : d[i] = m})

\* C8: when no catalog entry equals the normalized candidate, the result is
\* the identifier of the entry with the least Levenshtein distance to the
\* candidate (the first one on a tie) if the candidate is not empty and that
\* distance is below cutoff = ceil(0.05 * length of the candidate), and it is
\* None in every other case.
C8_NearestBelowCutoffOrNone ==
    pc = "done" =>
        LET n == _norm_license(contents) IN
            exact_matches(n) = {} =>
                IF /\ Len(LICENSES) > 0
                   /\ n # <<>>
                   /\ distances(n)[nearest(n)] < five_percent_up(Len(n))
                    THEN ret = spdx_of(nearest(n))
                    ELSE ret = no_match

\* the second entry is returned at distance 1 after the first entry was
\* taken at distance 2, and the fifth entry, also at distance 1, is not
C8_Witness ==
    /\ pc = "done"
    /\ exact_matches(_norm_license(contents)) = {}
    /\ ret = spdx_of(2)
    /\ distances(norm)[1] = 2
    /\ distances(norm)[2] = 1
    /\ distances(norm)[5] = 1
    /\ cutoff = 3
    /\ calls >= 3

\* license_id without the length test: every entry that is not an exact
\* match gets its distance computed
RECURSIVE search_unpruned(_, _, _, _, _)
search_unpruned(n, k, i, best, best_spdx) ==
    IF i > Len(LICENSES)
        THEN IF n # <<>> /\ best < k
                THEN [kind |-> "spdx", value |-> best_spdx]
                ELSE no_match
    ELSE IF n = norm_licenses[i] THEN spdx_of(i)
    ELSE LET d == levenshtein(n, norm_licenses[i]) IN
        IF d < k /\ d < best
            THEN search_unpruned(n, k, i + 1, d, LICENSES[i].spdx)
            ELSE search_unpruned(n, k, i + 1, best, best_spdx)

\* the entries the loop has gone past
passed == 1..(idx - 1)

\* C10: for a non-empty normalized candidate, an entry is skipped without a
\* call of the distance function exactly when it is not an exact match and
\* the lengths differ by more than 5% of the candidate's length; every
\* skipped entry has a Levenshtein distance of at least cutoff; the result
\* is that of the search without the length test; and when every entry is
\* skipped the distance function was never called and the result is None.
C10_PruningIsSound ==
    pc \in {"loop", "done"} /\ norm # <<>> =>
        /\ \A i \in passed :
            i \in skipped <=>
                /\ norm # norm_licenses[i]
                /\ 20 * abs(Len(norm) - Len(norm_licenses[i])) > Len(norm)
        /\ skipped \subseteq passed
        /\ calls = Cardinality(passed \ skipped)
        /\ \A i \in skipped : levenshtein(norm, norm_licenses[i]) >= cutoff
        /\ pc = "done" => ret = search_unpruned(norm, cutoff, 1, maxsize, "")
        /\ pc = "done" /\ skipped = 1..Len(LICENSES) =>
            calls = 0 /\ ret = no_match

\* 'Permission', less than half as long as any catalog text: every entry is
\* skipped, no distance is computed, the result is None
C10_Witness ==
    /\ pc = "done"
    /\ norm = <<80, 101, 114, 109, 105, 115, 115, 105, 111, 110>>
    /\ skipped = 1..Len(LICENSES)
    /\ calls = 0
    /\ ret = no_match

====
